---- MODULE Spec2Model ----
(***************************************************************************)
(* fastdel: the recursive deletion engine (DeletionEngine) and its         *)
(* statistics accumulator (DeletionStats) of src/src/main.rs, run against  *)
(* a small POSIX file system.                                              *)
(*                                                                         *)
(* A path is identified with the directory entry it names.  metadata and   *)
(* read_dir follow a symbolic link in the last component, remove_file and  *)
(* remove_dir act on the entry itself.  Every file system call may fail    *)
(* for a reason of its own (permission, lock, I/O error); such injected    *)
(* failures are counted in `injected` and capped by MaxFailures.           *)
(* read_dir returns the entries of a directory in increasing node order;   *)
(* Init enumerates every assignment of kinds to nodes, so every relative   *)
(* order of files, directories and links in a listing occurs.              *)
(* A state of the model is a point where the run waits on a file system    *)
(* call; what the code does between two calls belongs to the step of the   *)
(* first.  A print to stdout belongs to the step it follows; when it      *)
(* cannot be written the process panics.  The progress bar draws on        *)
(* stderr and is left out.                                                 *)
(*                                                                         *)
(* Spec is one run of main on a tree, from the resolution of the path and  *)
(* the confirmation prompt on.  StatsSpec is the accumulator alone,        *)
(* called by several tasks at once; in a run of the engine there are no    *)
(* such tasks (callers is empty), the engine is the only caller.           *)
(***************************************************************************)
EXTENDS Integers, Sequences, FiniteSets, TLC

\* ------------------------------------------------------------------ bounds
\* Nodes 1..MaxNodes: the root path and the entries below it.
MaxNodes == 4
\* How many file system calls may fail for a reason of their own in a run.
MaxFailures == 2
\* The tasks that share one accumulator, the calls each of them makes, and
\* the largest number of bytes one call adds.
MaxCallers == 2
MaxCalls == 2
MaxBytes == 2

\* ------------------------------------------------------------ file system
\* The path handed to delete_directory.
Root == 1
Inside == (Root + 1)..MaxNodes
\* A directory outside the root subtree, and the file it holds.
ExtDir == MaxNodes + 1
ExtFile == MaxNodes + 2
Nodes == Root..ExtFile
NoNode == 0

\* A number of bytes is written in three limbs: <<a, b, c>> stands for
\* a * 2^60 + b * 2^30 + c, with b and c below 2^30.  A u64 has a below 2^4.
Limb == 2 ^ 30
TopLimb == 2 ^ 4
Bytes(n) == <<0, 0, n>>
U64Max == <<TopLimb - 1, Limb - 1, Limb - 1>>
\* The sum of two numbers of bytes, as a number.
Plus(x, y) ==
  LET c == x[3] + y[3]
      b == x[2] + y[2] + (c \div Limb)
  IN <<x[1] + y[1] + (b \div Limb), b % Limb, c % Limb>>
\* u64 addition as AtomicU64::fetch_add does it: the sum modulo 2^64.
wrapping_add(x, y) ==
  LET t == Plus(x, y) IN <<t[1] % TopLimb, t[2], t[3]>>
\* x <= y
AtMost(x, y) ==
  \/ x[1] < y[1]
  \/ x[1] = y[1] /\ x[2] < y[2]
  \/ x[1] = y[1] /\ x[2] = y[2] /\ x[3] <= y[3]

\* Length in bytes of the file stored at node n: 2^63 - 2^(n-1), a sparse
\* file close to the largest length a file can have (distinct per node, so a
\* sum of lengths identifies the set of nodes it was taken over; two such
\* lengths fit a u64, three do not).  For a link it is the length of the link
\* itself, not of what it points to.
SizeOf(n) == <<(TopLimb \div 2) - 1, Limb - 1, Limb - 2 ^ (n - 1)>>

\* What one entry below root can be: where it hangs, its kind, its target.
EntrySpecs ==
  [parent : {NoNode}, kind : {"none"}, target : {NoNode}]
    \cup [parent : Root..(MaxNodes - 1), kind : {"file", "dir"}, target : {NoNode}]
    \cup [parent : Root..(MaxNodes - 1), kind : {"link"},
          target : {NoNode, ExtDir, ExtFile}]

\* The entries form a tree below root: used nodes are 2..k, a parent is a
\* directory with a smaller number, and the nodes are numbered level by
\* level, so that a tree with its order of siblings has one numbering.
WellFormed(rk, t) ==
  /\ \A n \in Inside :
       t[n].kind # "none" =>
         /\ t[n].parent < n
         /\ IF t[n].parent = Root THEN rk = "dir"
            ELSE t[t[n].parent].kind = "dir"
         /\ n > Root + 1 =>
              /\ t[n - 1].kind # "none"
              /\ t[n - 1].parent <= t[n].parent

VARIABLES
  kind,      \* node -> "file" | "dir" | "link" | "none", as the run starts
  parent,    \* node -> the directory holding it (NoNode: above root)
  target,    \* link -> the node it points to (NoNode: dangling)
  present,   \* the nodes that exist on disk now
  stats,     \* DeletionStats: the four counters
  state,     \* where main is: Resolving, Confirming, Idle, Validating,
             \* Traversing, RemovingRoot; or how it ended: Completed,
             \* Failed, Cancelled, Aborted, Panicked
  result,    \* what delete_directory returned: none, Ok, or the error
  stack,     \* the frames of delete_directory_contents_concurrent
  exit_code, \* the status the process exits with (-1: still running)
  injected,  \* number of injected failures so far
  trace,     \* history of the engine's file system calls
  callers    \* the tasks sharing one Arc<DeletionStats>, beside the engine

vars == <<kind, parent, target, present, stats, state, result, stack,
          exit_code, injected, trace, callers>>

\* -------------------------------------------------- file system primitives
Children(d) == {n \in present : parent[n] = d}

\* The node a path resolves to when its last component is followed.
Resolve(n) ==
  IF n \notin present THEN NoNode
  ELSE IF kind[n] = "link"
       THEN (IF target[n] \in present THEN target[n] ELSE NoNode)
       ELSE n

\* fs::metadata(path): Ok iff the path resolves.
MetadataOk(n) == Resolve(n) # NoNode
\* metadata.is_dir()
IsDir(n) == kind[Resolve(n)] = "dir"
\* metadata.len()
MetaLen(n) == SizeOf(Resolve(n))
\* fs::read_dir(path): Ok iff the path resolves to a directory.
ReadDirOk(n) == MetadataOk(n) /\ IsDir(n)
\* fs::remove_file(path): unlinks a file or a link, never a directory.
RemoveFileOk(n) == n \in present /\ kind[n] # "dir"
\* fs::remove_dir(path): only an empty directory; a link is not a directory.
RemoveDirOk(n) == n \in present /\ kind[n] = "dir" /\ Children(n) = {}

\* The entries of a set of nodes in increasing order.
RECURSIVE SortedSeq(_)
SortedSeq(S) ==
  IF S = {} THEN <<>>
  ELSE LET m == CHOOSE x \in S : \A y \in S : x <= y
       IN <<m>> \o SortedSeq(S \ {m})

\* ------------------------------------------------------------ DeletionStats
\* The counters are AtomicU64 and fetch_add wraps at 2^64.  bytes_freed takes
\* file lengths and is kept as a u64 in limbs.  The three other counters
\* start at 0 (line 53) and take 1 per call: they are plain numbers, which no
\* run of fewer than 2^64 calls tells from a u64.
ZeroStats ==
  [files_deleted |-> 0, dirs_deleted |-> 0, errors_encountered |-> 0,
   bytes_freed |-> Bytes(0)]
\* Line 57: files_deleted.fetch_add(1), one atomic read-modify-write.
increment_files(s) == [s EXCEPT !.files_deleted = @ + 1]
\* Mutant: the directory counter is bumped on the wrong field.
increment_dirs_WrongCounter(s) == increment_files(s)
\* Line 61: dirs_deleted.fetch_add(1).
increment_dirs(s) == [s EXCEPT !.dirs_deleted = @ + 1]
\* Mutant: the failure is not counted.
increment_errors_Dropped(s) == s
\* Line 65: errors_encountered.fetch_add(1).
increment_errors(s) == [s EXCEPT !.errors_encountered = @ + 1]
\* Line 69: bytes_freed.fetch_add(bytes).
add_bytes(s, bytes) == [s EXCEPT !.bytes_freed = wrapping_add(@, bytes)]

\* ------------------------------------------------------------------- Init
Init ==
  /\ \E rk \in {"dir", "file", "none"} :
       \E t \in {u \in [Inside -> EntrySpecs] : WellFormed(rk, u)} :
         /\ kind = [n \in Nodes |->
                      IF n = Root THEN rk
                      ELSE IF n = ExtDir THEN "dir"
                      ELSE IF n = ExtFile THEN "file"
                      ELSE t[n].kind]
         /\ parent = [n \in Nodes |->
                        IF n = ExtFile THEN ExtDir
                        ELSE IF n \in Inside THEN t[n].parent
                        ELSE NoNode]
         /\ target = [n \in Nodes |-> IF n \in Inside THEN t[n].target ELSE NoNode]
         /\ present = {n \in Nodes :
                         IF n = Root THEN rk # "none"
                         ELSE IF n \in Inside THEN t[n].kind # "none"
                         ELSE TRUE}
  /\ stats = ZeroStats
  /\ state = "Resolving"
  /\ result = "none"
  /\ stack = <<>>
  /\ exit_code = -1
  /\ injected = 0
  /\ trace = <<>>
  /\ callers = <<>>

\* ---------------------------------------------------------------- helpers
\* A call may fail for a reason of its own while the budget lasts.
Faults == IF injected < MaxFailures THEN BOOLEAN ELSE {FALSE}

\* One file system call as the history keeps it: the call, the directory
\* being traversed (NoNode for the calls of delete_directory itself), the
\* entry it was made on, whether it succeeded, whether its failure was an
\* injected one, and how many errors the engine recorded for it.
Event(op, d, n, ok, inj, err) ==
  [op |-> op, dir |-> d, node |-> n, ok |-> ok, inj |-> inj, err |-> err]
Recorded(s) == s.errors_encountered - stats.errors_encountered

\* println! panics when the write to stdout fails (a closed pipe, a full
\* device); the panic unwinds main and the process ends with status 101.
PanicStatus == 101
Panic ==
  /\ state' = "Panicked"
  /\ exit_code' = PanicStatus
  /\ stack' = <<>>
  /\ UNCHANGED result

\* A println! of main, after which main goes on as A.
println(A) == A \/ Panic
\* Lines 228-232: log_verbose prints with println! when --verbose was given,
\* and the engine goes on as A.  The flag does nothing else in a run, so it
\* is not kept: a run that panics here is a run with --verbose.
log_verbose(A) == A \/ println(A)

\* Lines 299-336: main matches on what delete_directory returned: on Err it
\* prints the error and calls std::process::exit(1), on Ok it prints the
\* summary and returns, status 0; printed tells whether these prints could
\* be written.
main_exit(r, printed) ==
  IF ~printed THEN PanicStatus ELSE IF r = "Ok" THEN 0 ELSE 1

\* delete_directory returns r to main, which prints and exits.
Finish(r) ==
  /\ state' = IF r = "Ok" THEN "Completed" ELSE "Failed"
  /\ result' = r
  /\ \E printed \in BOOLEAN : exit_code' = main_exit(r, printed)

\* A fresh frame of delete_directory_contents_concurrent(dir).
Frame(d) ==
  [dir |-> d, pc |-> "open", entries |-> <<>>, file_paths |-> <<>>,
   dir_paths |-> <<>>]

Top == stack[Len(stack)]
SetTop(f) == [stack EXCEPT ![Len(stack)] = f]
Pop == SubSeq(stack, 1, Len(stack) - 1)

\* ---------------------------------------------------------------- actions
\* Lines 281-282: args.path.canonicalize(); on Err main returns it through
\* `?` and the process exits with status 1, the engine is never built.
Canonicalize ==
  /\ state = "Resolving"
  /\ \E fail \in Faults :
       LET nat == Root \in present
           ok == nat /\ ~fail
       IN /\ injected' = IF nat /\ fail THEN injected + 1 ELSE injected
          /\ state' = IF ok THEN "Confirming" ELSE "Aborted"
          /\ exit_code' = IF ok THEN exit_code ELSE 1
  /\ UNCHANGED <<callers, kind, parent, target, present, stats, result, stack,
                 trace>>

\* A character is its Unicode code point.
CodePoint ==
  ("y" :> 121) @@ ("e" :> 101) @@ ("s" :> 115) @@ ("n" :> 110) @@
  ("Y" :> 89) @@ ("E" :> 69) @@ ("S" :> 83) @@ ("!" :> 33) @@
  (" " :> 32) @@ ("\t" :> 9) @@ ("\n" :> 10) @@ ("\r" :> 13) @@
  ("nbsp" :> 160)
Chars(w) == [i \in DOMAIN w |-> CodePoint[w[i]]]

\* What read_line may put into the buffer (nothing at end of input).
Answers ==
  {Chars(w) : w \in
     {<<"y", "\n">>, <<"Y", "e", "S", "\n">>, <<" ", "y", " ", "\r", "\n">>,
      <<"\t", "y", "\n">>, <<"y", "\t", "\n">>, <<"nbsp", "y", "e", "s", "\n">>,
      <<"n", "\n">>, <<"\n">>, <<>>, <<"y", "e", "s", "!", "\n">>,
      <<"y", " ", "e", "s", "\n">>}}

\* char::is_whitespace: the code points with the Unicode property
\* White_Space.
WhiteSpace ==
  (9..13) \cup {32, 133, 160, 5760} \cup (8192..8202)
    \cup {8232, 8233, 8239, 8287, 12288}
\* str::trim
RECURSIVE trim_start(_)
trim_start(w) ==
  IF w # <<>> /\ Head(w) \in WhiteSpace THEN trim_start(Tail(w)) ELSE w
RECURSIVE trim_end(_)
trim_end(w) ==
  IF w # <<>> /\ w[Len(w)] \in WhiteSpace
  THEN trim_end(SubSeq(w, 1, Len(w) - 1)) ELSE w
trim(w) == trim_end(trim_start(w))
\* str::to_lowercase on ASCII text, which is what the answers are: A-Z go to
\* a-z, every other ASCII character stays.
LowerOf(ch) == IF ch \in 65..90 THEN ch + 32 ELSE ch
to_lowercase(w) == [i \in DOMAIN w |-> LowerOf(w[i])]
\* Lines 240-255: confirm_deletion is true for the line that, trimmed and in
\* lower case, reads "y" or "yes".
confirm_deletion(input) ==
  to_lowercase(trim(input)) \in {Chars(<<"y">>), Chars(<<"y", "e", "s">>)}

\* Lines 285-288: with --yes the prompt is skipped.  Otherwise
\* confirm_deletion prints the warning and the question (lines 242-246),
\* flushes and reads a line: a failure of flush or read_line leaves main
\* through `?`, status 1; an accepted answer goes on; any other answer
\* prints "Deletion cancelled." and returns Ok(()), status 0.
Confirm ==
  /\ state = "Confirming"
  /\ \E yes, read_ok \in BOOLEAN : \E input \in Answers :
       IF yes
       THEN /\ state' = "Idle"
            /\ UNCHANGED exit_code
       ELSE println(
         IF ~read_ok
         THEN /\ state' = "Aborted"
              /\ exit_code' = 1
         ELSE IF confirm_deletion(input)
         THEN /\ state' = "Idle"
              /\ UNCHANGED exit_code
         ELSE println(/\ state' = "Cancelled"
                      /\ exit_code' = 0))
  /\ UNCHANGED <<callers, kind, parent, target, present, stats, result, stack,
                 injected, trace>>

\* Lines 290-299: main prints the header, builds the engine and calls it on
\* the path.
Call ==
  /\ state = "Idle"
  /\ println(/\ state' = "Validating"
             /\ UNCHANGED exit_code)
  /\ UNCHANGED <<callers, kind, parent, target, present, stats, result, stack,
                 injected, trace>>

\* Mutant: validation without the is_dir test of lines 121-123.
Validate_NoDirCheck ==
  /\ state = "Validating"
  /\ \E fail \in Faults :
       LET nat == MetadataOk(Root)
           ok == nat /\ ~fail
       IN /\ trace' = Append(trace, Event("metadata", NoNode, Root, ok, nat /\ fail, 0))
          /\ injected' = IF nat /\ fail THEN injected + 1 ELSE injected
          /\ IF ~ok
             THEN /\ Finish("AccessError")
                  /\ stack' = stack
             ELSE log_verbose(/\ state' = "Traversing"
                              /\ stack' = <<Frame(Root)>>
                              /\ UNCHANGED <<result, exit_code>>)
  /\ UNCHANGED <<callers, kind, parent, target, present, stats>>

\* Lines 118-123: fs::metadata(path) and the is_dir test.
Validate ==
  /\ state = "Validating"
  /\ \E fail \in Faults :
       LET nat == MetadataOk(Root)
           ok == nat /\ ~fail
       IN /\ trace' = Append(trace, Event("metadata", NoNode, Root, ok, nat /\ fail, 0))
          /\ injected' = IF nat /\ fail THEN injected + 1 ELSE injected
          /\ IF ~ok
             THEN /\ Finish("AccessError")
                  /\ stack' = stack
             ELSE IF ~IsDir(Root)
             THEN /\ Finish("InvalidTargetError")
                  /\ stack' = stack
             ELSE log_verbose(/\ state' = "Traversing"
                              /\ stack' = <<Frame(Root)>>
                              /\ UNCHANGED <<result, exit_code>>)
  /\ UNCHANGED <<callers, kind, parent, target, present, stats>>

\* What the helpers hand back to the `?` of their caller.
\* Mutants: the failure is returned as an Err instead of being absorbed.
remove_file_result_Propagates(ok) == IF ok THEN "Ok" ELSE "IoError"
remove_directory_result_Propagates(ok) == IF ok THEN "Ok" ELSE "IoError"
\* Line 149: a directory that cannot be opened still returns Ok(()).
read_dir_result(ok) == "Ok"
\* Line 201: remove_file returns Ok(()) on both arms.
remove_file_result(ok) == "Ok"
\* Line 216: remove_directory returns Ok(()) on both arms.
remove_directory_result(ok) == "Ok"

\* The top frame returns r (lines 149, 185); `?` at lines 128, 176, 181, 182
\* hands an Err on to the caller of delete_directory.
Returned(r) ==
  IF r # "Ok"
  THEN /\ stack' = <<>>
       /\ Finish(r)
  ELSE IF Len(stack) = 1
  THEN /\ stack' = <<>>
       /\ state' = "RemovingRoot"
       /\ UNCHANGED <<result, exit_code>>
  ELSE /\ stack' = [Pop EXCEPT ![Len(stack) - 1].pc = "rmdir"]
       /\ UNCHANGED <<state, result, exit_code>>

\* Mutant: the recursive call of line 181 is left out.
Descend_Skipped(f) ==
  /\ stack' = SetTop([f EXCEPT !.pc = "rmdir"])
  /\ UNCHANGED <<state, result, exit_code>>

\* Mutant: the recursive call is started but not awaited; the caller stands
\* ready to remove the subdirectory while the call runs.
Descend_NotAwaited(f) ==
  /\ stack' = Append(SetTop([f EXCEPT !.pc = "rmdir"]), Frame(Head(f.dir_paths)))
  /\ UNCHANGED <<state, result, exit_code>>

\* Lines 180-181: the innermost call f descends into its next subdirectory.
Descend(f) ==
  /\ stack' = Append(SetTop([f EXCEPT !.pc = "call"]), Frame(Head(f.dir_paths)))
  /\ UNCHANGED <<state, result, exit_code>>

\* Mutant: the loop over dir_paths (lines 180-183) runs before the loop over
\* file_paths (lines 175-177).
Advance_DirsFirst(f) ==
  IF f.dir_paths # <<>> THEN Descend(f)
  ELSE IF f.file_paths # <<>>
  THEN /\ stack' = SetTop([f EXCEPT !.pc = "files"])
       /\ UNCHANGED <<state, result, exit_code>>
  ELSE Returned("Ok")

\* Lines 175-185: the innermost call goes on as f up to its next file system
\* call: the next file, else the next subdirectory, else it returns Ok(()).
Advance(f) ==
  IF f.file_paths # <<>>
  THEN /\ stack' = SetTop([f EXCEPT !.pc = "files"])
       /\ UNCHANGED <<state, result, exit_code>>
  ELSE IF f.dir_paths # <<>> THEN Descend(f)
  ELSE Returned("Ok")

\* The innermost call goes on as f, unless the helper it called returned Err.
Continue(r, f) ==
  IF r # "Ok"
  THEN /\ stack' = <<>>
       /\ Finish(r)
  ELSE Advance(f)

\* Lines 144-151: fs::read_dir(dir_path).
ReadDir ==
  /\ state = "Traversing"
  /\ Top.pc = "open"
  /\ \E fail \in Faults :
       LET d == Top.dir
           nat == ReadDirOk(d)
           ok == nat /\ ~fail
           s == IF ok THEN stats ELSE increment_errors(stats)
       IN /\ trace' = Append(trace, Event("read_dir", d, d, ok, nat /\ fail,
                                          Recorded(s)))
          /\ injected' = IF nat /\ fail THEN injected + 1 ELSE injected
          /\ stats' = s
          /\ IF ok
             THEN /\ stack' = SetTop([Top EXCEPT !.pc = "scan",
                                  !.entries = SortedSeq(Children(Resolve(d)))])
                  /\ UNCHANGED <<state, result, exit_code>>
             ELSE log_verbose(Returned(read_dir_result(ok)))
  /\ UNCHANGED <<callers, kind, parent, target, present>>

\* Line 157: next_entry() yields Ok(None), the listing is complete.
ScanEnd ==
  /\ state = "Traversing"
  /\ Top.pc = "scan"
  /\ Top.entries = <<>>
  /\ trace' = Append(trace, Event("next_entry", Top.dir, Top.dir, TRUE, FALSE, 0))
  /\ Advance(Top)
  /\ UNCHANGED <<callers, kind, parent, target, present, stats, injected>>

\* Line 157: next_entry() yields Err; `while let Ok(Some(..))` leaves the
\* loop, the entries not yet returned are never seen.
ScanError ==
  /\ state = "Traversing"
  /\ Top.pc = "scan"
  /\ injected < MaxFailures
  /\ injected' = injected + 1
  /\ trace' = Append(trace, Event("next_entry", Top.dir, Top.dir, FALSE, TRUE, 0))
  /\ Advance([Top EXCEPT !.entries = <<>>])
  /\ UNCHANGED <<callers, kind, parent, target, present, stats>>

\* Lines 159-171: the entry goes to dir_paths or, with its length, to
\* file_paths; an entry whose metadata cannot be read goes to neither.
Classify(f, e, ok) ==
  IF ~ok THEN f
  ELSE IF IsDir(e) THEN [f EXCEPT !.dir_paths = Append(@, e)]
  ELSE [f EXCEPT !.file_paths = Append(@, [path |-> e, size |-> MetaLen(e)])]

\* Line 157: next_entry() yields Ok(Some(entry)); the entry is the head of
\* what the listing has left, and its metadata is asked for next.
NextEntry ==
  /\ state = "Traversing"
  /\ Top.pc = "scan"
  /\ Top.entries # <<>>
  /\ trace' = Append(trace, Event("next_entry", Top.dir, Top.dir, TRUE, FALSE, 0))
  /\ stack' = SetTop([Top EXCEPT !.pc = "meta"])
  /\ UNCHANGED <<callers, kind, parent, target, present, stats, state, result,
                 exit_code, injected>>

\* Lines 158-172: fs::metadata(&path) answers for the entry, which is
\* classified; the loop goes back to next_entry().
EntryMetadata ==
  /\ state = "Traversing"
  /\ Top.pc = "meta"
  /\ \E fail \in Faults :
       LET e == Head(Top.entries)
           nat == MetadataOk(e)
           ok == nat /\ ~fail
           f == [Top EXCEPT !.entries = Tail(@), !.pc = "scan"]
           s == IF ok THEN stats ELSE increment_errors(stats)
       IN /\ trace' = Append(trace, Event("metadata", Top.dir, e, ok,
                                          nat /\ fail, Recorded(s)))
          /\ injected' = IF nat /\ fail THEN injected + 1 ELSE injected
          /\ stats' = s
          /\ LET classified ==
                   /\ stack' = SetTop(Classify(f, e, ok))
                   /\ UNCHANGED <<state, result, exit_code>>
             IN IF ok THEN classified ELSE log_verbose(classified)
  /\ UNCHANGED <<callers, kind, parent, target, present>>

\* Lines 189-202: remove_file(file_path, size).
remove_file(s, ok, size) ==
  IF ok THEN add_bytes(increment_files(s), size) ELSE increment_errors(s)

\* Lines 205-217: remove_directory(dir_path).
remove_directory(s, ok) ==
  IF ok THEN increment_dirs(s) ELSE increment_errors(s)

\* Lines 175-177: the next file of file_paths.
RemoveFile ==
  /\ state = "Traversing"
  /\ Top.pc = "files"
  /\ \E fail \in Faults :
       LET fp == Head(Top.file_paths)
           nat == RemoveFileOk(fp.path)
           ok == nat /\ ~fail
           s == remove_file(stats, ok, fp.size)
       IN /\ trace' = Append(trace, Event("remove_file", Top.dir, fp.path, ok,
                                          nat /\ fail, Recorded(s)))
          /\ injected' = IF nat /\ fail THEN injected + 1 ELSE injected
          /\ present' = IF ok THEN present \ {fp.path} ELSE present
          /\ stats' = s
          /\ LET removed == Continue(remove_file_result(ok),
                                      [Top EXCEPT !.file_paths = Tail(@)])
             IN IF ok THEN removed ELSE log_verbose(removed)
  /\ UNCHANGED <<callers, kind, parent, target>>

\* Line 182: the recursive call is back, remove the subdirectory itself.
RemoveSubdir ==
  /\ state = "Traversing"
  /\ Top.pc = "rmdir"
  /\ \E fail \in Faults :
       LET d == Head(Top.dir_paths)
           nat == RemoveDirOk(d)
           ok == nat /\ ~fail
           s == remove_directory(stats, ok)
       IN /\ trace' = Append(trace, Event("remove_dir", Top.dir, d, ok,
                                          nat /\ fail, Recorded(s)))
          /\ injected' = IF nat /\ fail THEN injected + 1 ELSE injected
          /\ present' = IF ok THEN present \ {d} ELSE present
          /\ stats' = s
          /\ LET removed == Continue(remove_directory_result(ok),
                                      [Top EXCEPT !.dir_paths = Tail(@)])
             IN IF ok THEN removed ELSE log_verbose(removed)
  /\ UNCHANGED <<callers, kind, parent, target>>

\* Mutant: delete_directory returns without removing root (line 131).
RemoveRoot_Skipped ==
  /\ state = "RemovingRoot"
  /\ Finish("Ok")
  /\ UNCHANGED <<callers, kind, parent, target, present, stats, stack, injected, trace>>

\* Lines 131-133: remove the root directory, then Ok(()) goes to main.
RemoveRoot ==
  /\ state = "RemovingRoot"
  /\ \E fail \in Faults :
       LET nat == RemoveDirOk(Root)
           ok == nat /\ ~fail
           r == remove_directory_result(ok)
           s == remove_directory(stats, ok)
       IN /\ trace' = Append(trace, Event("remove_dir", NoNode, Root, ok,
                                          nat /\ fail, Recorded(s)))
          /\ injected' = IF nat /\ fail THEN injected + 1 ELSE injected
          /\ present' = IF ok THEN present \ {Root} ELSE present
          /\ stats' = s
          /\ stack' = <<>>
          /\ IF ok THEN Finish(r) ELSE log_verbose(Finish(r))
  /\ UNCHANGED <<callers, kind, parent, target>>

Next ==
  \/ Canonicalize
  \/ Confirm
  \/ Call
  \/ Validate
  \/ ReadDir
  \/ ScanEnd
  \/ ScanError
  \/ NextEntry
  \/ EntryMetadata
  \/ RemoveFile
  \/ RemoveSubdir
  \/ RemoveRoot

Spec == Init /\ [][Next]_vars

\* main awaits delete_directory on the tokio runtime (lines 276, 299): the one
\* task of the run is driven until it returns.
FairSpec == Spec /\ WF_vars(Next)

\* ------------------------------------------ DeletionStats, shared by tasks
\* DeletionStats::new hands out an Arc; every method takes &self, so any
\* number of tasks may call into one accumulator with no lock.  Each method
\* is a single fetch_add, an atomic read-modify-write: one step.  A caller
\* keeps a tally of its own of what it has asked for.
Callers == 1..MaxCallers
\* What a call of add_bytes may pass: a few bytes, or the largest u64.
Amounts == {Bytes(n) : n \in 0..MaxBytes} \cup {U64Max}
engine_vars ==
  <<kind, parent, target, present, state, result, stack, exit_code, injected,
    trace>>

\* Line 53: a fresh accumulator, no run of the engine under way.
StatsInit ==
  /\ kind = [n \in Nodes |-> "none"]
  /\ parent = [n \in Nodes |-> NoNode]
  /\ target = [n \in Nodes |-> NoNode]
  /\ present = {}
  /\ stats = ZeroStats
  /\ state = "Idle"
  /\ result = "none"
  /\ stack = <<>>
  /\ exit_code = -1
  /\ injected = 0
  /\ trace = <<>>
  /\ callers = [c \in Callers |-> [left |-> MaxCalls, tally |-> ZeroStats]]

\* Lines 56-58: caller c calls increment_files().
CallIncrementFiles(c) ==
  /\ callers[c].left > 0
  /\ stats' = increment_files(stats)
  /\ callers' = [callers EXCEPT ![c].left = @ - 1,
                                ![c].tally.files_deleted = @ + 1]
  /\ UNCHANGED engine_vars

\* Lines 60-62: caller c calls increment_dirs().
CallIncrementDirs(c) ==
  /\ callers[c].left > 0
  /\ stats' = increment_dirs(stats)
  /\ callers' = [callers EXCEPT ![c].left = @ - 1,
                                ![c].tally.dirs_deleted = @ + 1]
  /\ UNCHANGED engine_vars

\* Lines 64-66: caller c calls increment_errors().
CallIncrementErrors(c) ==
  /\ callers[c].left > 0
  /\ stats' = increment_errors(stats)
  /\ callers' = [callers EXCEPT ![c].left = @ - 1,
                                ![c].tally.errors_encountered = @ + 1]
  /\ UNCHANGED engine_vars

\* Lines 68-70: caller c calls add_bytes(n).
CallAddBytes(c) ==
  /\ callers[c].left > 0
  /\ \E n \in Amounts :
       /\ stats' = add_bytes(stats, n)
       /\ callers' = [callers EXCEPT ![c].left = @ - 1,
                                     ![c].tally.bytes_freed = Plus(@, n)]
  /\ UNCHANGED engine_vars

StatsNext ==
  \E c \in Callers :
    \/ CallIncrementFiles(c)
    \/ CallIncrementDirs(c)
    \/ CallIncrementErrors(c)
    \/ CallAddBytes(c)

StatsSpec == StatsInit /\ [][StatsNext]_vars

\* ------------------------------------------------- vocabulary of the claims
\* The tree delete_directory was called on, as the run started.
InTree == {n \in Nodes : (n = Root \/ n \in Inside) /\ kind[n] # "none"}
InitialNodes == {n \in Nodes : kind[n] # "none"}
\* delete_directory has returned.
Done == state \in {"Completed", "Failed"}
\* The run is over: delete_directory has returned, or the process panicked
\* after main called it.
Ended == Done \/ (state = "Panicked" /\ trace # <<>>)
FailedAt == {i \in DOMAIN trace : ~trace[i].ok}
AllOk == FailedAt = {}
\* Event i is a removal that succeeded.
Removal(i) == trace[i].op \in {"remove_file", "remove_dir"} /\ trace[i].ok
RemovedAt == {i \in DOMAIN trace : Removal(i)}

\* The directories from the parent of n up to root.
RECURSIVE Ancestors(_)
Ancestors(n) ==
  IF n = NoNode \/ parent[n] = NoNode THEN {}
  ELSE {parent[n]} \cup Ancestors(parent[n])

\* Path x is d or lies below d.
RECURSIVE Within(_, _)
Within(x, d) ==
  IF x = NoNode THEN FALSE
  ELSE IF x = d THEN TRUE
  ELSE Within(parent[x], d)

\* The entries a listing of path d returns as the run starts.
StaticResolve(d) ==
  IF d = NoNode THEN NoNode ELSE IF kind[d] = "link" THEN target[d] ELSE d
EntriesOf(d) ==
  IF StaticResolve(d) = NoNode THEN {}
  ELSE {c \in InitialNodes : parent[c] = StaticResolve(d)}

\* Entries the engine classifies as files: regular files and links to one.
FileLike(n) == kind[n] = "file" \/ (kind[n] = "link" /\ target[n] = ExtFile)

RECURSIVE SumSizes(_)
SumSizes(S) ==
  IF S = {} THEN Bytes(0)
  ELSE LET n == CHOOSE x \in S : TRUE IN Plus(SizeOf(n), SumSizes(S \ {n}))

\* ------------------------------------------------------------------ claims
\* C1: in a run in which no listing, metadata or removal call fails, when
\* delete_directory returns Ok neither root nor any descendant exists any
\* more and errors_encountered is 0.
C1_Completeness ==
  (result = "Ok" /\ AllOk) =>
    (InTree \cap present = {} /\ stats.errors_encountered = 0)

C1_Witness ==
  /\ result = "Ok"
  /\ AllOk
  /\ Cardinality(InTree) = MaxNodes
  /\ \E d \in Inside : kind[d] = "dir" /\ EntriesOf(d) # {}
  /\ InTree \cap present = {}

\* C2: post-order.  In the history of every finished run (the history of an
\* unfinished run is a prefix of one), the removal of a directory d is
\* attempted only after d has been listed, nothing inside d is touched
\* afterwards, and when the removal succeeds every entry d held at the start
\* was removed, or had an error recorded for it, before.
C2_PostOrder ==
  Done =>
    \A i \in DOMAIN trace :
      trace[i].op = "remove_dir" =>
        LET d == trace[i].node IN
        /\ \E j \in 1..(i - 1) : trace[j].op = "read_dir" /\ trace[j].node = d
        /\ \A j \in (i + 1)..Len(trace) : ~Within(trace[j].dir, d)
        /\ trace[i].ok =>
             \A c \in EntriesOf(d) :
               \E j \in 1..(i - 1) :
                 /\ trace[j].node = c
                 /\ Removal(j) \/ trace[j].err = 1

C2_Witness ==
  Done /\ \E i \in DOMAIN trace :
    /\ trace[i].op = "remove_dir"
    /\ trace[i].ok
    /\ trace[i].node \in Inside
    /\ \E c \in EntriesOf(trace[i].node) : kind[c] = "dir" /\ EntriesOf(c) # {}

\* C3: only validation fails a run.  delete_directory returns nothing but
\* Ok, AccessError or InvalidTargetError; a Failed run is one whose only
\* call was the failed or non-directory metadata of root; and once
\* validation has passed the run reaches Completed, with Ok, whatever fails
\* later.
C3_OnlyValidationFails ==
  /\ [](result \in {"none", "Ok", "AccessError", "InvalidTargetError"})
  /\ [](state = "Failed" =>
          (Len(trace) = 1 /\ (~trace[1].ok \/ kind[Root] # "dir")))
  /\ (state = "Traversing") ~> (state = "Completed" /\ result = "Ok")

\* The removal of file f failed, and nothing else failed but the removal of
\* the directories above f.
OnlyFails(f) ==
  /\ \E i \in FailedAt : trace[i].op = "remove_file" /\ trace[i].node = f
  /\ \A i \in FailedAt :
       \/ trace[i].op = "remove_file" /\ trace[i].node = f
       \/ trace[i].op = "remove_dir" /\ trace[i].node \in Ancestors(f)

FileSiblings(f) == {c \in EntriesOf(parent[f]) : FileLike(c)}

\* C4: error containment.  When the removal of exactly one file f fails and
\* nothing else fails but the removal of the directories above f, the other
\* file-like siblings of f are all removed and counted, f stays, at least
\* one error is recorded and the run is Completed.
C4_ErrorContainment ==
  Done => \A f \in Inside :
    OnlyFails(f) =>
      /\ state = "Completed"
      /\ f \in present
      /\ FileSiblings(f) \cap present = {f}
      /\ Cardinality({i \in DOMAIN trace :
                        /\ Removal(i)
                        /\ trace[i].op = "remove_file"
                        /\ trace[i].dir = parent[f]})
           = Cardinality(FileSiblings(f)) - 1
      /\ stats.files_deleted
           = Cardinality({n \in InTree : FileLike(n)}) - 1
      /\ stats.errors_encountered >= 1

C4_Witness ==
  \E f \in Inside :
    /\ Done
    /\ OnlyFails(f)
    /\ Cardinality(FileSiblings(f)) = MaxNodes - 1
    /\ stats.files_deleted = MaxNodes - 2

\* C5: byte accounting.  When delete_directory has returned, bytes_freed is
\* the sum of the sizes of exactly the files whose removal succeeded.
C5_ByteAccounting ==
  Done =>
    stats.bytes_freed
      = SumSizes({trace[i].node : i \in {j \in RemovedAt :
                                           trace[j].op = "remove_file"}})

\* C6: fatal validation has no effect.  A root that cannot be accessed gives
\* AccessError, a root that is no directory gives InvalidTargetError; in
\* both cases the metadata call on root is the only call made, nothing is
\* removed and the four counters are zero.
C6_FatalValidation ==
  trace # <<>> =>
    /\ ~trace[1].ok => result = "AccessError"
    /\ (trace[1].ok /\ kind[Root] # "dir") => result = "InvalidTargetError"
    /\ (~trace[1].ok \/ kind[Root] # "dir") =>
         /\ state = "Failed"
         /\ Len(trace) = 1
         /\ stack = <<>>
         /\ present = InitialNodes
         /\ stats = ZeroStats

C6_Witness ==
  /\ state = "Failed"
  /\ result = "InvalidTargetError"
  /\ kind[Root] = "file"
  /\ exit_code = 1

\* C7: exact accounting of a failure-free run.  files_deleted is the number
\* of files of the tree, dirs_deleted the number of its directories with
\* root, errors_encountered is 0; for an empty root bytes_freed is 0.
C7_ExactAccounting ==
  (state = "Completed" /\ AllOk) =>
    /\ stats.files_deleted = Cardinality({n \in InTree : kind[n] \in {"file", "link"}})
    /\ stats.dirs_deleted = Cardinality({n \in InTree : kind[n] = "dir"})
    /\ stats.errors_encountered = 0
    /\ InTree = {Root} =>
         stats = [ZeroStats EXCEPT !.dirs_deleted = 1]

C7_Witness ==
  /\ state = "Completed"
  /\ AllOk
  /\ stats.files_deleted = 2
  /\ stats.dirs_deleted = 2
  /\ \E d \in Inside : kind[d] = "dir" /\ EntriesOf(d) # {}
  /\ \E f \in EntriesOf(Root) : kind[f] = "file"

\* C8: a failure cascades to the ancestors without aborting.  When one file
\* f cannot be removed and nothing else fails of its own, every directory
\* from the parent of f up to root has its removal attempted once, fails,
\* stays on disk and adds one error; everything else is deleted and the run
\* is Completed.
C8_FailureCascades ==
  (Done /\ injected = 1) => \A f \in Inside :
    OnlyFails(f) =>
      /\ state = "Completed"
      /\ \A a \in Ancestors(f) :
           /\ a \in present
           /\ \E i \in FailedAt :
                /\ trace[i].op = "remove_dir" /\ trace[i].node = a
                /\ trace[i].err = 1
                /\ \A j \in DOMAIN trace :
                     (trace[j].op = "remove_dir" /\ trace[j].node = a) => j = i
      /\ InTree \cap present = {f} \cup Ancestors(f)
      /\ stats.errors_encountered = 1 + Cardinality(Ancestors(f))
      /\ stats.files_deleted = Cardinality({n \in InTree : FileLike(n)}) - 1

C8_Witness ==
  \E f \in Inside :
    /\ Done
    /\ OnlyFails(f)
    /\ injected = 1
    /\ Cardinality(Ancestors(f)) = 2
    /\ stats.files_deleted = 1
    /\ stats.errors_encountered = 3

\* C9: a listing failure is absorbed.  Whenever a directory d cannot be
\* opened, or its iteration fails, one error is recorded for that failure,
\* no entry of d is removed or descended into, the run does not fail and
\* goes on to attempt the removal of d.
C9_ListingFailureAbsorbed ==
  \A i \in FailedAt :
    trace[i].op \in {"read_dir", "next_entry"} =>
      LET d == trace[i].node IN
      /\ trace[i].err = 1
      /\ \A j \in DOMAIN trace :
           trace[j].dir = d => trace[j].op \notin {"remove_file", "remove_dir"}
      /\ state # "Failed"
      /\ Done => \E j \in (i + 1)..Len(trace) :
                   trace[j].op = "remove_dir" /\ trace[j].node = d

\* The listing of d failed, at open time or while iterating.
ListingCut(d) ==
  \E i \in DOMAIN trace :
    ~trace[i].ok /\ trace[i].op \in {"read_dir", "next_entry"} /\ trace[i].node = d

\* C10: a metadata failure skips the entry.  In the history of every run
\* that is over, for every entry whose metadata lookup fails one error is recorded,
\* the entry is never removed nor listed under that path, and every other
\* entry the listing returned is classified and, if classified, has its
\* removal attempted.
C10_MetadataFailureSkips ==
  Ended =>
    \A i \in DOMAIN trace :
      (~trace[i].ok /\ trace[i].op = "metadata" /\ trace[i].dir # NoNode) =>
        LET d == trace[i].dir
            e == trace[i].node
        IN
        /\ trace[i].err = 1
        /\ \A j \in DOMAIN trace :
             (j # i /\ trace[j].node = e) => trace[j].dir # d
        /\ \A j \in DOMAIN trace : trace[j].dir = e => e = d
        /\ ~ListingCut(d) =>
             \A c \in EntriesOf(d) \ {e} :
               \E j \in DOMAIN trace :
                 /\ trace[j].op = "metadata" /\ trace[j].dir = d /\ trace[j].node = c
                 /\ trace[j].ok =>
                      \E k \in (j + 1)..Len(trace) :
                        /\ trace[k].op \in {"remove_file", "remove_dir"}
                        /\ trace[k].dir = d /\ trace[k].node = c

\* C11: the counters never go down.  No step of a run lowers files_deleted,
\* dirs_deleted, errors_encountered or bytes_freed.
C11_Monotonic ==
  [][/\ stats'.files_deleted >= stats.files_deleted
     /\ stats'.dirs_deleted >= stats.dirs_deleted
     /\ stats'.errors_encountered >= stats.errors_encountered
     /\ AtMost(stats.bytes_freed, stats'.bytes_freed)]_vars

\* What the callers in C have asked for on one counter, all together.
RECURSIVE Asked(_, _)
Asked(field, C) ==
  IF C = {} THEN 0
  ELSE LET c == CHOOSE x \in C : TRUE
       IN callers[c].tally[field] + Asked(field, C \ {c})
\* The bytes the callers in C have added, all together.
RECURSIVE AskedBytes(_)
AskedBytes(C) ==
  IF C = {} THEN Bytes(0)
  ELSE LET c == CHOOSE x \in C : TRUE
       IN Plus(callers[c].tally.bytes_freed, AskedBytes(C \ {c}))

\* C12: no update is lost.  Whatever the interleaving of the callers, once
\* all calls have finished each counter of the shared accumulator is the
\* number of increments asked for on it, and bytes_freed is the sum of the
\* amounts added; a call that changed another counter than its own would
\* break the equality on that counter.
C12_NoLostUpdate ==
  (\A c \in Callers : callers[c].left = 0) =>
    /\ \A field \in DOMAIN ZeroStats \ {"bytes_freed"} :
         stats[field] = Asked(field, Callers)
    /\ stats.bytes_freed = AskedBytes(Callers)

\* C13: the exit status.  The process exits with a non-zero status when
\* delete_directory fails at validation (root cannot be accessed or is no
\* directory) and with status 0 after a Completed run, whatever the value of
\* errors_encountered.
C13_ExitContract ==
  /\ state = "Failed" => exit_code # 0
  /\ state = "Completed" => exit_code = 0

\* The frames that are not suspended on their recursive call.
Running == {i \in DOMAIN stack : stack[i].pc # "call"}
\* Event i is made while path d or something below it is being traversed.
During(i, d) == Within(trace[i].dir, d)

\* C14: the traversal is sequential.  While a run traverses, exactly one call
\* of delete_directory_contents_concurrent is running, the innermost one:
\* every other frame is suspended on the recursive call into the first
\* subdirectory it has left, so one file system call is in flight at a time
\* and no two siblings are processed together.  In the history of a finished
\* run the calls made while a subdirectory d is traversed are consecutive,
\* and the call right after them is the removal of d: depth-first order.
C14_Sequential ==
  /\ state = "Traversing" => Running = {Len(stack)}
  /\ state # "Traversing" => stack = <<>>
  /\ \A i \in 1..(Len(stack) - 1) : stack[i + 1].dir = Head(stack[i].dir_paths)
  /\ Done =>
       \A d \in Inside : \A i \in 1..(Len(trace) - 1) :
         (During(i, d) /\ ~During(i + 1, d)) =>
           /\ trace[i + 1].op = "remove_dir" /\ trace[i + 1].node = d
           /\ \A k \in (i + 2)..Len(trace) : ~During(k, d)

C14_Witness ==
  /\ Done
  /\ \E a, b \in EntriesOf(Root) :
       /\ a < b
       /\ kind[a] = "dir" /\ kind[b] = "dir"
       /\ EntriesOf(a) # {}
       /\ {a, b} \cap present = {}

\* Event i lists, recurses into or removes a subdirectory of d.
SubdirEvent(i, d) ==
  \/ trace[i].op = "remove_dir" /\ trace[i].dir = d
  \/ trace[i].dir # d /\ Within(trace[i].dir, d)

\* C15: files before directories.  In the history of every finished run, no
\* removal of a file of d comes after a call that lists, recurses into or
\* removes a subdirectory of d, and every entry of d classified as a file
\* has its removal attempted: so all of them before the first subdirectory.
C15_FilesFirst ==
  Done =>
    /\ \A j \in DOMAIN trace :
         trace[j].op = "remove_file" =>
           \A i \in 1..(j - 1) : ~SubdirEvent(i, trace[j].dir)
    /\ \A m \in DOMAIN trace :
         (/\ trace[m].op = "metadata" /\ trace[m].ok
          /\ trace[m].dir # NoNode /\ FileLike(trace[m].node)) =>
           \E j \in (m + 1)..Len(trace) :
             /\ trace[j].op = "remove_file"
             /\ trace[j].dir = trace[m].dir /\ trace[j].node = trace[m].node

C15_Witness ==
  /\ Done
  /\ \E i, j \in DOMAIN trace :
       /\ i < j
       /\ trace[i].op = "metadata" /\ trace[j].op = "metadata"
       /\ trace[i].dir = Root /\ trace[j].dir = Root
       /\ kind[trace[i].node] = "dir" /\ kind[trace[j].node] = "file"
       /\ EntriesOf(trace[i].node) # {}
       /\ {trace[i].node, trace[j].node} \cap present = {}

\* C16: root is removed last and once.  The removal of root is attempted
\* only as the last call of a run, after the traversal has returned; a run
\* that passed validation ends with it, whether or not root is empty by
\* then; on failure one error is recorded for it, on success root is gone,
\* and dirs_deleted is the number of directory removals that succeeded, the
\* one of root among them.
C16_RootLast ==
  /\ \A i \in DOMAIN trace :
       (trace[i].op = "remove_dir" /\ trace[i].node = Root) =>
         /\ i = Len(trace)
         /\ state \in {"Completed", "Panicked"}
         /\ stack = <<>>
         /\ trace[i].ok <=> Root \notin present
         /\ trace[i].err = IF trace[i].ok THEN 0 ELSE 1
  /\ (Ended /\ trace[1].ok /\ kind[Root] = "dir") =>
       /\ trace[Len(trace)].op = "remove_dir"
       /\ trace[Len(trace)].node = Root
       /\ stats.dirs_deleted
            = Cardinality({i \in DOMAIN trace :
                             Removal(i) /\ trace[i].op = "remove_dir"})

\* C17: no silent leftovers.  When delete_directory has returned Ok and
\* errors_encountered is 0, neither root nor any entry below it exists any
\* more; put the other way round, a Completed run that leaves any entry of
\* the tree on disk, seen or unseen, has recorded at least one error.
C17_NoSilentLeftovers ==
  /\ (result = "Ok" /\ stats.errors_encountered = 0) => InTree \cap present = {}
  /\ (state = "Completed" /\ InTree \cap present # {}) =>
       stats.errors_encountered >= 1

\* Entry n was never the subject of a call: the listing stopped before it.
Unseen(n) == \A i \in DOMAIN trace : trace[i].node # n

C17_Witness ==
  /\ state = "Completed"
  /\ \E n \in InTree \cap present : Unseen(n)
  /\ \A i \in FailedAt : trace[i].op \in {"next_entry", "remove_dir"}
  /\ stats.errors_encountered >= 1

\* The removals attempted, and the failures of listing and metadata calls
\* for which an error was recorded.
Attempts == {i \in DOMAIN trace : trace[i].op \in {"remove_file", "remove_dir"}}
RecordedFailures ==
  {i \in DOMAIN trace :
     trace[i].op \in {"read_dir", "next_entry", "metadata"} /\ trace[i].err = 1}

\* C18: the counters agree with the disk.  When delete_directory has
\* returned, files_deleted is the number of non-directory entries of the
\* initial tree that are gone, dirs_deleted the number of its directories
\* (root included) that are gone, no entry was removed twice, and
\* files_deleted + dirs_deleted + errors_encountered is the number of removal
\* attempts plus the number of recorded listing and metadata failures.
C18_CountersAgree ==
  Done =>
    /\ stats.files_deleted
         = Cardinality({n \in InTree \ present : kind[n] \in {"file", "link"}})
    /\ stats.dirs_deleted
         = Cardinality({n \in InTree \ present : kind[n] = "dir"})
    /\ \A i, j \in DOMAIN trace :
         (Removal(i) /\ Removal(j) /\ trace[i].node = trace[j].node) => i = j
    /\ stats.files_deleted + stats.dirs_deleted + stats.errors_encountered
         = Cardinality(Attempts) + Cardinality(RecordedFailures)

\* C19: confinement.  A run removes nothing that is neither root nor below
\* root: the directory outside root and the file it holds stay on disk, also
\* when an entry of the tree is a link to that directory.
C19_Confinement ==
  \A n \in InitialNodes \ InTree : n \in present
====
